---- MODULE Spec2Model ----
(***************************************************************************)
(* The MessageToken ledger contract of blocknet (Solidity ^0.4.8, embedded *)
(* in src/src/modules/LoadingScreen.js, lines 191-395): per-account token  *)
(* balances, the cooldown-gated claim(), the fee-charging sendMessage(),   *)
(* the two content pointers and the owner-only changeBlocksPerClaim().     *)
(*                                                                         *)
(* Arithmetic is the unchecked unsigned arithmetic of Solidity 0.4: every  *)
(* +, - and * wraps modulo 2^Width.  The contract's words are 256 bits     *)
(* wide; the model keeps the wrap-around but scales the width down.        *)
(* A transaction that hits a failed require() or a division by zero is     *)
(* reverted: no state variable of the contract changes.                    *)
(***************************************************************************)
EXTENDS Integers, Sequences, FiniteSets, TLC

\* ------------------------------------------------------------------ bounds
\* Width: bits of a uint; MaxHeight: last block mined; MaxHist: entries of one
\* account's messageHistory; MaxBalance: largest balance a claim may reach;
\* MaxSent: entries of a messageHistory where accounts send repeatedly;
\* MaxRuns: syncData runs of one client in flight at a time.
Width == 7
MaxHeight == 1
MaxHist == 1
MaxBalance == 24
MaxSent == 2
MaxRuns == 2

Modulus == 2 ^ Width
UintMax == Modulus - 1

\* ------------------------------------------------- constants of the contract
DefaultDailyTokens == 12
DefaultTokensPerMessage == 3
DefaultBlocksPerClaim == 100

\* ---------------------------------------------------------------- addresses
ZeroAddr == "0x0"
This == "this"
Users == {"A", "B"}
Addresses == Users \cup {This}

\* argument values the callers choose from
InitialAmounts == {9, 24}
NewBPCs == {0, 1, 2}
Pointers == {"Qm1", "Qm2"}
Hashes == {"QmRoom"}

None == -1

VARIABLES
    owner,            \* address owner
    totalSupply,      \* BaseToken.totalSupply
    balances,         \* BaseToken.balances, balances[This] is the reserve
    dailyTokens,      \* uint256 dailyTokens
    tokensPerMessage, \* uint256 tokensPerMessage
    blocksPerClaim,   \* uint blocksPerClaim
    lastClaimed,      \* mapping (address => uint) lastClaimed
    messageHistory,   \* mapping (address => uint[]) messageHistory
    ipfsHash,         \* string ipfsHash
    latestMessage,    \* string latestMessage
    height,           \* block.number of the block being mined
    claimedAt,        \* history: height of the account's last successful claim
    files,            \* IPFS: the lines of the file behind each pointer
    hashContents,     \* Backend state.hashContents of each account's client
    syncing,          \* the syncData runs in flight and what each has read
    shown             \* Backend state of the selected account's client

vars == <<owner, totalSupply, balances, dailyTokens, tokensPerMessage,
          blocksPerClaim, lastClaimed, messageHistory, ipfsHash,
          latestMessage, height, claimedAt,
          files, hashContents, syncing, shown>>

client == <<files, hashContents, syncing, shown>>

ledger == <<owner, totalSupply, balances, dailyTokens, tokensPerMessage,
            blocksPerClaim, lastClaimed, messageHistory, ipfsHash,
            latestMessage>>

\* ------------------------------------------------------- unsigned arithmetic
Wrap(x) == x % Modulus
UAdd(a, b) == Wrap(a + b)
USub(a, b) == Wrap(a - b)
UMul(a, b) == Wrap(a * b)

\* SafeMath.sub: asserts b <= a; callers below only use it under that guard.
SafeSub(a, b) == a - b
\* SafeMath.div: a / b, which Solidity aborts when b = 0.
DivFails(b) == b = 0
SafeDiv(a, b) == a \div b

RECURSIVE SumOver(_, _)
SumOver(f, S) ==
    IF S = {} THEN 0
    ELSE LET x == CHOOSE y \in S : TRUE IN f[x] + SumOver(f, S \ {x})

\* ------------------------------------------------------------ view functions
balanceOf(addr) == balances[addr]

\* the difference taken as a signed number, without the wrap-around
BlockDiff_Signed(h, lc) == h - lc - 1

\* block.number - lastClaimed[addr] - 1, as the unsigned expression it is
BlockDiff(h, lc) == USub(USub(h, lc), 1)

BlocksTillClaimableAt(h, lc, bpc) ==
    IF lc = 0 THEN 0
    ELSE IF BlockDiff(h, lc) < bpc THEN SafeSub(bpc, BlockDiff(h, lc))
    ELSE 0

getBlocksTillClaimable(addr) ==
    BlocksTillClaimableAt(height, lastClaimed[addr], blocksPerClaim)

getLastClaimedBlock(addr) == lastClaimed[addr]
getMessageHistory(addr) == messageHistory[addr]
getBlocksPerClaim == blocksPerClaim
getTokensPerMessage == tokensPerMessage
getDailyTokensNo == dailyTokens
getMessage == latestMessage
getHash == ipfsHash

\* getClaimableTokens aborts (division by zero) exactly when this holds
ClaimableTokensFails(addr) ==
    lastClaimed[addr] # 0 /\ DivFails(blocksPerClaim)

\* the grant with the period that has only started counted as well
getClaimableTokens_CountsStarted(addr) ==
    IF lastClaimed[addr] = 0 THEN dailyTokens
    ELSE UMul(SafeDiv(BlockDiff(height, lastClaimed[addr]), blocksPerClaim) + 1,
              dailyTokens)

getClaimableTokens(addr) ==
    IF lastClaimed[addr] = 0 THEN dailyTokens
    ELSE UMul(SafeDiv(BlockDiff(height, lastClaimed[addr]), blocksPerClaim),
              dailyTokens)

\* ----------------------------------------------------- guards and outcomes
\* the cooldown test with the period counted one block short
ClaimTooEarly_OffByOne(sender) ==
    BlockDiff(height, lastClaimed[sender]) + 1 < blocksPerClaim

\* claim(): the early "return false"
\* claim() without the cooldown test
ClaimTooEarly_NoGate(sender) == FALSE

ClaimTooEarly(sender) ==
    BlockDiff(height, lastClaimed[sender]) < blocksPerClaim

\* the balance test without the fee
HasFunds_NoFee(sender) == balances[sender] >= 0

\* sendMessage(): require(balances[msg.sender] >= tokensPerMessage)
HasFunds(sender) == balances[sender] >= tokensPerMessage

\* the owner test reduced to "some account"
IsOwner_AnyAccount(sender) == sender # ZeroAddr

\* changeBlocksPerClaim(): require(msg.sender == owner)
IsOwner(sender) == sender = owner

\* What the caller of claim() gets: the bool it returns, or a reverted
\* transaction when getClaimableTokens divides by zero.
claimResult(sender) ==
    IF ClaimTooEarly(sender) THEN "false"
    ELSE IF ClaimableTokensFails(sender) THEN "revert"
    ELSE "true"

sendMessageResult(sender) == IF HasFunds(sender) THEN "ok" ELSE "revert"

changeBlocksPerClaimResult(sender) == IF IsOwner(sender) THEN "ok" ELSE "revert"

\* ---------------------------------------------------------- the client
\* Backend (part_000): no file added, nothing fetched, no syncData run in
\* flight, and the displayed values of the state initialiser.
Selected == "A"
Runs == 1..MaxRuns
Idle == [running |-> FALSE, balance |-> 0, claimableTokens |-> 0,
         blocksTilClaim |-> 0, at |-> 0]

ClientInit ==
    /\ files = [p \in Pointers |-> <<>>]
    /\ hashContents = [c \in Users |-> <<>>]
    /\ syncing = [r \in Runs |-> Idle]
    /\ shown = [balance |-> 0, claimableTokens |-> 0, blocksTilClaim |-> 0,
                at |-> 0]

\* --------------------------------------------------------------------- Init
\* The deployed contract: MessageToken declares no constructor, so every
\* field holds its initialiser or the zero value.
Init ==
    /\ owner = ZeroAddr
    /\ totalSupply = 0
    /\ balances = [a \in Addresses |-> 0]
    /\ dailyTokens = DefaultDailyTokens
    /\ tokensPerMessage = DefaultTokensPerMessage
    /\ blocksPerClaim = DefaultBlocksPerClaim
    /\ lastClaimed = [a \in Users |-> 0]
    /\ messageHistory = [a \in Users |-> <<>>]
    /\ ipfsHash = ""
    /\ latestMessage = ""
    /\ height = 0
    /\ claimedAt = [a \in Users |-> None]
    /\ ClientInit

\* ------------------------------------------------------------------ actions
\* A new block: block.number grows by one.
Mine ==
    /\ height < MaxHeight
    /\ height' = height + 1
    /\ UNCHANGED <<ledger, claimedAt, client>>

\* UsableToken(_initialAmount, ...): a public function of MessageToken (its
\* name is not the contract's, so it is no constructor). The name, decimals
\* and symbol strings it stores are read by no operation and are left out.
UsableToken(sender, initialAmount) ==
    /\ owner' = sender
    /\ balances' = [balances EXCEPT ![This] = initialAmount]
    /\ totalSupply' = initialAmount
    /\ UNCHANGED <<dailyTokens, tokensPerMessage, blocksPerClaim, lastClaimed,
                   messageHistory, ipfsHash, latestMessage, height, claimedAt,
                   client>>

\* A reverted transaction leaves every field as it was.
changeBlocksPerClaim(sender, newBPC) ==
    IF changeBlocksPerClaimResult(sender) = "revert"
    THEN UNCHANGED vars
    ELSE /\ blocksPerClaim' = newBPC
         /\ UNCHANGED <<owner, totalSupply, balances, dailyTokens,
                        tokensPerMessage, lastClaimed, messageHistory,
                        ipfsHash, latestMessage, height, claimedAt, client>>

claim(sender) ==
    IF claimResult(sender) # "true"
    THEN UNCHANGED vars
    ELSE LET value == getClaimableTokens(sender) IN
         /\ balances[sender] + value <= MaxBalance    \* bound of the model
         /\ lastClaimed' = [lastClaimed EXCEPT ![sender] = USub(height, 1)]
         /\ balances' = [balances EXCEPT
                           ![sender] = UAdd(balances[sender], value),
                           ![This] = USub(balances[This], value)]
         /\ claimedAt' = [claimedAt EXCEPT ![sender] = height]
         /\ UNCHANGED <<owner, totalSupply, dailyTokens, tokensPerMessage,
                        blocksPerClaim, messageHistory, ipfsHash,
                        latestMessage, height, client>>

\* sendMessage recording the send before it tests the balance, and
\* returning instead of reverting when the balance is short
sendMessage_RecordsFirst(sender, message) ==
    /\ Len(messageHistory[sender]) < MaxHist
    /\ messageHistory' = [messageHistory EXCEPT
                            ![sender] = Append(@, USub(height, 1))]
    /\ IF sendMessageResult(sender) = "revert"
       THEN UNCHANGED <<balances, latestMessage>>
       ELSE /\ balances' = [balances EXCEPT
                    ![sender] = USub(balances[sender], tokensPerMessage),
                    ![This] = UAdd(balances[This], tokensPerMessage)]
            /\ latestMessage' = message
    /\ UNCHANGED <<owner, totalSupply, dailyTokens, tokensPerMessage,
                   blocksPerClaim, lastClaimed, ipfsHash, height, claimedAt,
                   client>>

\* sendMessage paying the fee to the owner instead of the reserve
sendMessage_FeeToOwner(sender, message) ==
    IF sendMessageResult(sender) = "revert"
    THEN UNCHANGED vars
    ELSE /\ Len(messageHistory[sender]) < MaxHist
         /\ owner \in Users \ {sender}
         /\ messageHistory' = [messageHistory EXCEPT
                                 ![sender] = Append(@, USub(height, 1))]
         /\ balances' = [balances EXCEPT
                           ![sender] = USub(balances[sender], tokensPerMessage),
                           ![owner] = UAdd(balances[owner], tokensPerMessage)]
         /\ latestMessage' = message
         /\ UNCHANGED <<owner, totalSupply, dailyTokens, tokensPerMessage,
                        blocksPerClaim, lastClaimed, ipfsHash, height,
                        claimedAt, client>>

sendMessage(sender, message) ==
    IF sendMessageResult(sender) = "revert"
    THEN UNCHANGED vars
    ELSE /\ Len(messageHistory[sender]) < MaxHist      \* bound of the model
         /\ messageHistory' = [messageHistory EXCEPT
                                 ![sender] = Append(@, USub(height, 1))]
         /\ balances' = [balances EXCEPT
                           ![sender] = USub(balances[sender], tokensPerMessage),
                           ![This] = UAdd(balances[This], tokensPerMessage)]
         /\ latestMessage' = message
         /\ UNCHANGED <<owner, totalSupply, dailyTokens, tokensPerMessage,
                        blocksPerClaim, lastClaimed, ipfsHash, height,
                        claimedAt, client>>

\* sendHash writing the message pointer instead of the room pointer
sendHash_WritesLatestMessage(sender, hash) ==
    /\ latestMessage' = hash
    /\ UNCHANGED <<owner, totalSupply, balances, dailyTokens, tokensPerMessage,
                   blocksPerClaim, lastClaimed, messageHistory, ipfsHash,
                   height, claimedAt, client>>

\* sendHash charging the message fee
sendHash_ChargesFee(sender, hash) ==
    /\ HasFunds(sender)
    /\ ipfsHash' = hash
    /\ balances' = [balances EXCEPT
                      ![sender] = USub(balances[sender], tokensPerMessage),
                      ![This] = UAdd(balances[This], tokensPerMessage)]
    /\ UNCHANGED <<owner, totalSupply, dailyTokens, tokensPerMessage,
                   blocksPerClaim, lastClaimed, messageHistory, latestMessage,
                   height, claimedAt, client>>

sendHash(sender, hash) ==
    /\ ipfsHash' = hash
    /\ UNCHANGED <<owner, totalSupply, balances, dailyTokens, tokensPerMessage,
                   blocksPerClaim, lastClaimed, messageHistory, latestMessage,
                   height, claimedAt, client>>

Next ==
    \/ Mine
    \/ \E s \in Users, n \in InitialAmounts : UsableToken(s, n)
    \/ \E s \in Users, n \in NewBPCs : changeBlocksPerClaim(s, n)
    \/ \E s \in Users : claim(s)
    \/ \E s \in Users, m \in Pointers : sendMessage(s, m)
    \/ \E s \in Users, p \in Hashes : sendHash(s, p)

Spec == Init /\ [][Next]_vars

\* ------------------------------------------- one account over a long cooldown
\* The ledger after UsableToken(24, ...) by B in block 0, then account A
\* alone claiming and sending while the chain grows past one default
\* cooldown (blocks 0 .. blocksPerClaim + 2).
ScenarioEnd == DefaultBlocksPerClaim + 2

InitScenario ==
    /\ owner = "B"
    /\ totalSupply = 24
    /\ balances = [a \in Addresses |-> IF a = This THEN 24 ELSE 0]
    /\ dailyTokens = DefaultDailyTokens
    /\ tokensPerMessage = DefaultTokensPerMessage
    /\ blocksPerClaim = DefaultBlocksPerClaim
    /\ lastClaimed = [a \in Users |-> 0]
    /\ messageHistory = [a \in Users |-> <<>>]
    /\ ipfsHash = ""
    /\ latestMessage = ""
    /\ height = 0
    /\ claimedAt = [a \in Users |-> None]
    /\ ClientInit

MineOn ==
    /\ height < ScenarioEnd
    /\ height' = height + 1
    /\ UNCHANGED <<ledger, claimedAt, client>>

NextScenario ==
    \/ MineOn
    \/ claim("A")
    \/ \E m \in Pointers : sendMessage("A", m)

SpecScenario == InitScenario /\ [][NextScenario]_vars

\* ------------------------------------------- a cooldown fixed before claiming
\* The behaviours in which the owner changes blocksPerClaim only while no
\* account has claimed yet, so that the cooldown is the same at every claim
\* of an account and in between.
changeBlocksPerClaimEarly(sender, newBPC) ==
    /\ \A a \in Users : claimedAt[a] = None
    /\ changeBlocksPerClaim(sender, newBPC)

NextSteady ==
    \/ Mine
    \/ \E s \in Users, n \in InitialAmounts : UsableToken(s, n)
    \/ \E s \in Users, n \in NewBPCs : changeBlocksPerClaimEarly(s, n)
    \/ \E s \in Users : claim(s)
    \/ \E s \in Users, m \in Pointers : sendMessage(s, m)
    \/ \E s \in Users, p \in Hashes : sendHash(s, p)

SpecSteady == Init /\ [][NextSteady]_vars

\* --------------------------------------------- accounts sending repeatedly
\* The funded ledger of the scenario above with both accounts claiming and
\* sending up to MaxSent messages each, so that a history grows past its
\* first entry.  sendMessageRepeated is sendMessage with the longer bound;
\* the variant before it keeps only the latest entry of the history.
sendMessageRepeated_KeepsLast(sender, message) ==
    IF sendMessageResult(sender) = "revert"
    THEN UNCHANGED vars
    ELSE /\ Len(messageHistory[sender]) < MaxSent
         /\ messageHistory' = [messageHistory EXCEPT
                                 ![sender] = <<USub(height, 1)>>]
         /\ balances' = [balances EXCEPT
                           ![sender] = USub(balances[sender], tokensPerMessage),
                           ![This] = UAdd(balances[This], tokensPerMessage)]
         /\ latestMessage' = message
         /\ UNCHANGED <<owner, totalSupply, dailyTokens, tokensPerMessage,
                        blocksPerClaim, lastClaimed, ipfsHash, height,
                        claimedAt, client>>

sendMessageRepeated(sender, message) ==
    IF sendMessageResult(sender) = "revert"
    THEN UNCHANGED vars
    ELSE /\ Len(messageHistory[sender]) < MaxSent      \* bound of the model
         /\ messageHistory' = [messageHistory EXCEPT
                                 ![sender] = Append(@, USub(height, 1))]
         /\ balances' = [balances EXCEPT
                           ![sender] = USub(balances[sender], tokensPerMessage),
                           ![This] = UAdd(balances[This], tokensPerMessage)]
         /\ latestMessage' = message
         /\ UNCHANGED <<owner, totalSupply, dailyTokens, tokensPerMessage,
                        blocksPerClaim, lastClaimed, ipfsHash, height,
                        claimedAt, client>>

NextHistory ==
    \/ Mine
    \/ \E s \in Users, n \in NewBPCs : changeBlocksPerClaim(s, n)
    \/ \E s \in Users : claim(s)
    \/ \E s \in Users, m \in Pointers : sendMessageRepeated(s, m)
    \/ \E s \in Users, p \in Hashes : sendHash(s, p)

SpecHistory == InitScenario /\ [][NextHistory]_vars

\* ------------------------------------------------- clients on the ledger
\* Two Backend clients, one per account, on the funded ledger.  Each sends
\* at most one message, whose line is the name of its account; its file is
\* found under the pointer PointerOf gives (IPFS names a file by its
\* content, and the files of the two clients differ in their first line).
PointerOf(c) == IF c = "A" THEN "Qm1" ELSE "Qm2"

\* readHash: getMessage(), then ipfs.files.cat of that pointer; a failed
\* cat (no pointer stored yet) sets hashContents to ''.
readHash(c) ==
    /\ hashContents' = [hashContents EXCEPT
                          ![c] = IF getMessage \in Pointers
                                 THEN files[getMessage] ELSE <<>>]
    /\ UNCHANGED <<ledger, height, claimedAt, files, syncing, shown>>

\* Backend.sendMessage up to ipfs.files.add: the new line followed by the
\* contents fetched last.
BackendAddFile(c) ==
    /\ files[PointerOf(c)] = <<>>
    /\ files' = [files EXCEPT ![PointerOf(c)] = <<c>> \o hashContents[c]]
    /\ UNCHANGED <<ledger, height, claimedAt, hashContents, syncing, shown>>

\* Backend.sendMessage from the transaction on: contract.sendMessage(hash)
BackendSendMessage(c) ==
    /\ files[PointerOf(c)] # <<>>
    /\ messageHistory[c] = <<>>
    /\ sendMessage(c, PointerOf(c))

\* The number of changes the ledger has seen: it grows with every block,
\* every successful claim and every successful sendMessage of SpecClient.
LedgerAge ==
    height + Cardinality({a \in Users : claimedAt[a] # None})
           + Len(messageHistory["A"]) + Len(messageHistory["B"])

\* syncData up to its last await: the accessors are called for the
\* selected account.  A failing accessor ends the run.
syncDataRead(r) ==
    /\ ~syncing[r].running
    /\ ~ClaimableTokensFails(Selected)
    /\ syncing' = [syncing EXCEPT ![r] =
                      [running |-> TRUE,
                       balance |-> balanceOf(Selected),
                       claimableTokens |-> getClaimableTokens(Selected),
                       blocksTilClaim |-> getBlocksTillClaimable(Selected),
                       at |-> LedgerAge]]
    /\ UNCHANGED <<ledger, height, claimedAt, files, hashContents, shown>>

\* syncData's setState: what this run has read replaces what is displayed.
syncDataSetState(r) ==
    /\ syncing[r].running
    /\ shown' = [balance |-> syncing[r].balance,
                 claimableTokens |-> syncing[r].claimableTokens,
                 blocksTilClaim |-> syncing[r].blocksTilClaim,
                 at |-> syncing[r].at]
    /\ syncing' = [syncing EXCEPT ![r] = Idle]
    /\ UNCHANGED <<ledger, height, claimedAt, files, hashContents>>

NextClient ==
    \/ Mine
    \/ \E s \in Users : claim(s)
    \/ \E c \in Users : readHash(c)
    \/ \E c \in Users : BackendAddFile(c)
    \/ \E c \in Users : BackendSendMessage(c)
    \/ \E r \in Runs : syncDataRead(r)
    \/ \E r \in Runs : syncDataSetState(r)

SpecClient == InitScenario /\ [][NextClient]_vars

TypeOK ==
    /\ owner \in Users \cup {ZeroAddr}
    /\ totalSupply \in 0..UintMax
    /\ balances \in [Addresses -> 0..UintMax]
    /\ blocksPerClaim \in 0..UintMax
    /\ lastClaimed \in [Users -> 0..UintMax]
    /\ height \in 0..UintMax

\* ================================================================== claims
created == owner # ZeroAddr

\* C1: the account balances and the reserve, read as non-negative integers,
\* always add up to totalSupply.
C1_SupplyConserved ==
    SumOver(balances, Users) + balances[This] = totalSupply

\* C2: once the ledger is created, no step changes totalSupply.
C2_TotalSupplyConstant ==
    [][created => totalSupply' = totalSupply]_vars

\* C3: once the owner is set, no step changes it.
C3_OwnerImmutable ==
    [][created => owner' = owner]_vars

\* The account claimed at claimedAt and fewer than blocksPerClaim heights
\* have passed since.
CoolingDown(a) ==
    claimedAt[a] # None /\ height - claimedAt[a] < blocksPerClaim

\* C4: a claim() made fewer than blocksPerClaim heights after the caller's
\* last successful claim() returns false and changes no balance, no
\* lastClaimed, no messageHistory and neither pointer.
C4_SecondClaimRejected ==
    /\ [](\A a \in Users : CoolingDown(a) => claimResult(a) = "false")
    /\ [][\A a \in Users :
            (CoolingDown(a) /\ claim(a)) =>
                UNCHANGED <<balances, lastClaimed, messageHistory,
                            latestMessage, ipfsHash>>]_vars

C4_Witness ==
    /\ claimedAt["A"] = 0
    /\ height = 1
    /\ blocksPerClaim = 2
    /\ balances["A"] = DefaultDailyTokens

\* C5: claim() of an account whose lastClaimed is 0 succeeds, at every
\* height and cooldown, and adds exactly dailyTokens to its balance.
C5_FirstClaimGrantsDaily ==
    /\ [](\A a \in Users : lastClaimed[a] = 0 => claimResult(a) = "true")
    /\ [][\A a \in Users :
            (lastClaimed[a] = 0 /\ claim(a)) =>
                balances'[a] = balances[a] + dailyTokens]_vars

\* C6: a successful sendMessage takes exactly tokensPerMessage from the
\* caller, adds exactly tokensPerMessage to the reserve and leaves every
\* other balance alone.
C6_SendMessageMovesFee ==
    [][\A s \in Users, m \in Pointers :
          (sendMessageResult(s) = "ok" /\ sendMessage(s, m)) =>
              /\ balances'[s] = balances[s] - tokensPerMessage
              /\ balances'[This] = balances[This] + tokensPerMessage
              /\ \A o \in Users \ {s} : balances'[o] = balances[o]]_vars

\* C7: sendMessage of a caller who holds less than tokensPerMessage fails
\* and changes no balance, no messageHistory and not latestMessage.
C7_SendMessageNeedsFunds ==
    /\ [](\A s \in Users :
            balances[s] < tokensPerMessage => sendMessageResult(s) = "revert")
    /\ [][\A s \in Users, m \in Pointers :
            (balances[s] < tokensPerMessage /\ sendMessage(s, m)) =>
                UNCHANGED <<balances, messageHistory, latestMessage>>]_vars

C7_Witness ==
    /\ balances["B"] < tokensPerMessage
    /\ balances["A"] = DefaultDailyTokens - DefaultTokensPerMessage
    /\ latestMessage = "Qm1"
    /\ Len(messageHistory["B"]) = 0

\* C8: a claim() whose amount exceeds the reserve changes nothing, and the
\* reserve never exceeds the supply it was created with (it never wraps
\* below zero).
C8_ClaimNeedsReserve ==
    [][\A a \in Users :
          (claimResult(a) = "true"
              /\ balances[This] < getClaimableTokens(a) /\ claim(a)) =>
              UNCHANGED ledger]_vars

\* C9: after a claim at height c (lastClaimed = c - 1), for the current
\* blocksPerClaim, getBlocksTillClaimable is positive at the heights
\* c .. c - 1 + blocksPerClaim, 0 from c + blocksPerClaim on, and never
\* grows from one height to the next.
C9_BlocksTillClaimableCountsDown ==
    \A a \in Users :
        claimedAt[a] # None =>
            \A h \in claimedAt[a]..MaxHeight :
                LET at(k) == BlocksTillClaimableAt(k, lastClaimed[a],
                                                   blocksPerClaim)
                IN /\ h - claimedAt[a] < blocksPerClaim => at(h) > 0
                   /\ h - claimedAt[a] >= blocksPerClaim => at(h) = 0
                   /\ h < MaxHeight => at(h + 1) <= at(h)

\* C10: changeBlocksPerClaim by anyone but the owner fails and changes
\* nothing; by the owner it stores the given value, whatever it is, and
\* changes nothing else.
C10_OnlyOwnerChangesCooldown ==
    /\ [](\A s \in Users :
            changeBlocksPerClaimResult(s) = (IF s = owner THEN "ok"
                                                          ELSE "revert"))
    /\ [][\A s \in Users, n \in NewBPCs :
            changeBlocksPerClaim(s, n) =>
                IF s = owner
                THEN /\ blocksPerClaim' = n
                     /\ UNCHANGED <<owner, totalSupply, balances, dailyTokens,
                                    tokensPerMessage, lastClaimed,
                                    messageHistory, ipfsHash, latestMessage>>
                ELSE UNCHANGED ledger]_vars

C10_Witness ==
    /\ owner = "A"
    /\ blocksPerClaim = 0
    /\ totalSupply = 24

\* C11: while blocksPerClaim is 0, getBlocksTillClaimable is 0 for every
\* account, now and at every later height, whatever its lastClaimed.
C11_ZeroCooldownNothingToWait ==
    blocksPerClaim = 0 =>
        \A a \in Users :
            /\ getBlocksTillClaimable(a) = 0
            /\ \A h \in height..MaxHeight, lc \in {0, lastClaimed[a], UintMax} :
                   BlocksTillClaimableAt(h, lc, blocksPerClaim) = 0

C11_Witness ==
    /\ blocksPerClaim = 0
    /\ created
    /\ claimedAt["A"] = 0
    /\ lastClaimed["A"] = UintMax
    /\ lastClaimed["B"] = 0

\* C12: while blocksPerClaim is 0, claim() succeeds for every caller at
\* every height, callers that have claimed before included.
C12_ZeroCooldownAlwaysClaimable ==
    blocksPerClaim = 0 => \A a \in Users : claimResult(a) = "true"

\* A has claimed in block 0 and sent one message in block 1.
ClaimedAndSent ==
    /\ claimedAt["A"] = 0
    /\ messageHistory["A"] = <<0>>
    /\ balances["A"] = 9

\* C13: with dailyTokens 12, tokensPerMessage 3, blocksPerClaim 100 and a
\* funded reserve: A's claim at height 0 gives balance 12; A's message at
\* height 1 gives balance 9, history <<0>> and 3 more in the reserve; A's
\* claim at height 50 fails and leaves 9; at height 102 getClaimableTokens
\* is 12 and A's claim succeeds with balance 21.
C13_Scenario ==
    /\ [](dailyTokens = 12 /\ tokensPerMessage = 3 /\ blocksPerClaim = 100)
    /\ [](height = 0 /\ claimedAt["A"] = None => claimResult("A") = "true")
    /\ [][(height = 0 /\ claimedAt["A"] = None /\ balances["A"] = 0
              /\ claim("A"))
            => balances'["A"] = 12]_vars
    /\ [][\A m \in Pointers :
            (height = 1 /\ claimedAt["A"] = 0 /\ balances["A"] = 12
                /\ messageHistory["A"] = <<>> /\ sendMessage("A", m))
            => /\ balances'["A"] = 9
               /\ messageHistory'["A"] = <<0>>
               /\ balances'[This] = balances[This] + 3]_vars
    /\ [](height = 50 /\ ClaimedAndSent => claimResult("A") = "false")
    /\ [][(height = 50 /\ ClaimedAndSent /\ claim("A"))
            => balances'["A"] = 9]_vars
    /\ [](height = 102 /\ ClaimedAndSent
            => claimResult("A") = "true" /\ getClaimableTokens("A") = 12)
    /\ [][(height = 102 /\ ClaimedAndSent /\ claim("A"))
            => balances'["A"] = 21]_vars

C13_Witness ==
    /\ height = 102
    /\ claimedAt["A"] = 102
    /\ messageHistory["A"] = <<0>>
    /\ balances["A"] = 21
    /\ balances[This] = 3

\* C14: wherever the quotient is defined (blocksPerClaim > 0),
\* getClaimableTokens is dailyTokens while the account has never claimed,
\* and after a claim at height c (lastClaimed = c - 1) it is
\* floor((height - lastClaimed - 1) / blocksPerClaim) * dailyTokens.
C14_ClaimableTokensFormula ==
    \A a \in Users :
        blocksPerClaim # 0 =>
            getClaimableTokens(a) =
                IF claimedAt[a] = None THEN dailyTokens
                ELSE ((height - claimedAt[a]) \div blocksPerClaim)
                         * dailyTokens

\* C15: getBlocksTillClaimable returns 0 while the account has never
\* claimed, and after a claim at height c (lastClaimed = c - 1)
\* max(0, blocksPerClaim - (height - lastClaimed - 1)).
C15_BlocksTillClaimableFormula ==
    \A a \in Users :
        getBlocksTillClaimable(a) =
            IF claimedAt[a] = None THEN 0
            ELSE IF blocksPerClaim - (height - claimedAt[a]) > 0
                 THEN blocksPerClaim - (height - claimedAt[a])
                 ELSE 0

\* C16: a claim that returns false or aborts, a sendMessage that aborts and
\* a changeBlocksPerClaim that aborts leave balances, lastClaimed,
\* messageHistory, blocksPerClaim, owner and both pointers as they were.
C16_FailedCallsChangeNothing ==
    [][/\ \A s \in Users :
             (claimResult(s) # "true" /\ claim(s)) => UNCHANGED ledger
       /\ \A s \in Users, m \in Pointers :
             (sendMessageResult(s) = "revert" /\ sendMessage(s, m))
                 => UNCHANGED ledger
       /\ \A s \in Users, n \in NewBPCs :
             (changeBlocksPerClaimResult(s) = "revert"
                 /\ changeBlocksPerClaim(s, n)) => UNCHANGED ledger]_vars

C16_Witness ==
    /\ claimResult("A") = "false"
    /\ sendMessageResult("B") = "revert"
    /\ changeBlocksPerClaimResult("B") = "revert"
    /\ balances["A"] = 9

\* C17: the read-only accessors never fail, for any account and in any
\* reachable state, blocksPerClaim = 0 included.  All accessors but
\* getClaimableTokens are plain reads or unchecked arithmetic and cannot
\* fail, so the property is that getClaimableTokens never aborts.
C17_AccessorsNeverFail ==
    \A addr \in Users : ~ClaimableTokensFails(addr)

C19_CooldownCycle ==
    /\ [][\A a \in Users :
             (claimedAt[a] # None /\ claimResult(a) = "true" /\ claim(a))
                 => height - claimedAt[a] >= blocksPerClaim]_vars
    /\ [](\A a \in Users :
             (claimedAt[a] # None /\ height - claimedAt[a] >= blocksPerClaim)
                 => claimResult(a) = "true")

\* C20: a successful claim by c at height h sets lastClaimed[c] to h - 1,
\* adds to the balance of c exactly what getClaimableTokens(c) returned
\* before the call, takes the same amount from the reserve, and leaves the
\* other accounts' lastClaimed, every messageHistory, both pointers and the
\* configuration unchanged.
C20_ClaimEffect ==
    [][\A c \in Users :
          (claimResult(c) = "true" /\ claim(c)) =>
              LET value == getClaimableTokens(c) IN
              /\ lastClaimed'[c] = USub(height, 1)
              /\ balances'[c] = balances[c] + value
              /\ balances'[This] = balances[This] - value
              /\ \A a \in Users \ {c} : lastClaimed'[a] = lastClaimed[a]
              /\ UNCHANGED <<messageHistory, ipfsHash, latestMessage,
                             dailyTokens, tokensPerMessage, blocksPerClaim,
                             owner>>]_vars

\* C21: messageHistory is append-only with one entry per successful
\* sendMessage.  A successful sendMessage by c at height h appends exactly
\* h - 1 to messageHistory[c]; whenever messageHistory[c] changes, the step
\* is a successful sendMessage by c, the history grows by one entry and
\* the earlier history is a prefix of the new one.
C21_HistoryAppendOnly ==
    [][\A c \in Users :
          /\ \A m \in Pointers :
                (sendMessageResult(c) = "ok" /\ sendMessageRepeated(c, m))
                    => messageHistory'[c]
                           = Append(messageHistory[c], USub(height, 1))
          /\ messageHistory'[c] # messageHistory[c] =>
                /\ sendMessageResult(c) = "ok"
                /\ \E m \in Pointers : sendMessageRepeated(c, m)
                /\ Len(messageHistory'[c]) = Len(messageHistory[c]) + 1
                /\ SubSeq(messageHistory'[c], 1, Len(messageHistory[c]))
                       = messageHistory[c]]_vars

C21_Witness ==
    /\ messageHistory["A"] = <<UintMax, 0>>
    /\ messageHistory["B"] = <<0>>
    /\ balances["A"] = 6
    /\ balances["B"] = 9

\* C22: latestMessage is last-write-wins.  A successful sendMessage(p)
\* makes getMessage return p, and getMessage changes in no other step:
\* not by a failed sendMessage, a claim, a sendHash, a
\* changeBlocksPerClaim, a UsableToken or a new block.
C22_LatestMessageLastWriteWins ==
    [][/\ \A c \in Users, p \in Pointers :
             (sendMessageResult(c) = "ok"
                 /\ Len(messageHistory[c]) < MaxHist
                 /\ sendMessage(c, p)) => getMessage' = p
       /\ getMessage' # getMessage =>
             \E c \in Users :
                 /\ sendMessageResult(c) = "ok"
                 /\ sendMessage(c, getMessage')]_vars

C22_Witness ==
    /\ getMessage = "Qm2"
    /\ messageHistory["A"] # <<>>
    /\ messageHistory["B"] # <<>>
    /\ getHash = "QmRoom"
    /\ \A c \in Users : sendMessageResult(c) = "ok"

\* C23: sendHash(p) by any caller with any balance succeeds and makes
\* getHash return p; a step that changes getHash is a sendHash and leaves
\* latestMessage, the balances, lastClaimed, messageHistory and the
\* configuration unchanged; sendMessage never changes getHash.
C23_SendHashIndependent ==
    /\ [](\A s \in Users, p \in Hashes : ENABLED sendHash(s, p))
    /\ [][/\ \A s \in Users, p \in Hashes : sendHash(s, p) => getHash' = p
          /\ getHash' # getHash =>
                /\ \E s \in Users : sendHash(s, getHash')
                /\ UNCHANGED <<latestMessage, balances, lastClaimed,
                               messageHistory, dailyTokens, tokensPerMessage,
                               blocksPerClaim, owner, totalSupply>>
          /\ \A c \in Users, m \in Pointers :
                sendMessage(c, m) => getHash' = getHash]_vars

C23_Witness ==
    /\ getHash = "QmRoom"
    /\ getMessage = "Qm1"
    /\ claimedAt["B"] = None
    /\ balances["B"] = 0
    /\ balances["A"] = 9

\* C24: claim() succeeds for a caller exactly when getBlocksTillClaimable
\* of that caller, at the same height and state, is 0.
C24_GateAgreesWithAccessor ==
    \A c \in Users :
        (claimResult(c) = "true") <=> (getBlocksTillClaimable(c) = 0)

\* C25: once an account's claim has succeeded its lastClaimed is never 0
\* again, so the accessors never take it for an account that has not
\* claimed.
C25_ClaimedNeverSentinel ==
    \A a \in Users : claimedAt[a] # None => lastClaimed[a] # 0

\* C26: for every account lastClaimed is below the current height, so the
\* unsigned block.number - lastClaimed - 1 of claim, getClaimableTokens and
\* getBlocksTillClaimable equals the signed difference and never wraps.
C26_BlockDiffNeverWraps ==
    \A a \in Users :
        /\ lastClaimed[a] < height
        /\ BlockDiff(height, lastClaimed[a])
               = BlockDiff_Signed(height, lastClaimed[a])

\* C27: whenever claim() returns true with blocksPerClaim > 0, the amount
\* credited to the caller is at least dailyTokens and a whole multiple of
\* dailyTokens.
C27_GrantAtLeastDaily ==
    /\ [](\A c \in Users :
             (blocksPerClaim > 0 /\ claimResult(c) = "true") =>
                 /\ getClaimableTokens(c) >= dailyTokens
                 /\ getClaimableTokens(c) % dailyTokens = 0)
    /\ [][\A c \in Users :
             (blocksPerClaim > 0 /\ claimResult(c) = "true" /\ claim(c)) =>
                 /\ balances'[c] - balances[c] >= dailyTokens
                 /\ (balances'[c] - balances[c]) % dailyTokens = 0]_vars

C27_Witness ==
    /\ blocksPerClaim = 1
    /\ claimedAt["A"] = 1
    /\ lastClaimed["A"] = 0
    /\ balances["A"] = 24

\* C28: the entries of every messageHistory are in non-decreasing order.
C28_HistoryNonDecreasing ==
    \A a \in Users :
        \A i, j \in 1..Len(messageHistory[a]) :
            i <= j => messageHistory[a][i] <= messageHistory[a][j]

\* C29: every message whose sendMessage transaction succeeded is one of
\* the lines of the file latestMessage points to.
C29_SentMessagesKept ==
    \A c \in Users :
        messageHistory[c] # <<>> =>
            /\ getMessage \in Pointers
            /\ \E i \in 1..Len(files[getMessage]) : files[getMessage][i] = c

\* C30: what the client displays is never replaced by values read from an
\* older ledger state than the one displayed already.
C30_DisplayNeverGoesBack ==
    [][shown'.at >= shown.at]_vars
====
